---- MODULE Spec2Model ----
(***************************************************************************)
(* Model of askDenodo.py: the five Denodo AI SDK tools, the transport      *)
(* helper make_denodo_request they share, and the Python value semantics   *)
(* (truthiness, `in`, dict.get, str(), str.join, format) their response    *)
(* handling relies on.                                                     *)
(*                                                                         *)
(* One invocation is followed at a time (the tools share no mutable        *)
(* state): a tool builds its request and awaits make_denodo_request, the   *)
(* backend answers or the httpx call fails, and the tool turns the value   *)
(* it got back into text, or an exception escapes it.                      *)
(***************************************************************************)
EXTENDS Integers, Sequences, FiniteSets, TLC

(***************************************************************************)
(* Python values as produced by response.json().  Every value has the same *)
(* record shape; t is the Python type.  A float carries its value in       *)
(* ten-thousandths in n.  A dict is the sequence of its items in insertion *)
(* order, with distinct keys.                                              *)
(***************************************************************************)
PyNone == [t |-> "none", b |-> FALSE, n |-> 0, s |-> "", a |-> <<>>, o |-> <<>>]

PyBool(x) == [t |-> "bool", b |-> x, n |-> 0, s |-> "", a |-> <<>>, o |-> <<>>]

PyInt(x) == [t |-> "int", b |-> FALSE, n |-> x, s |-> "", a |-> <<>>, o |-> <<>>]

PyFloat(x) == [t |-> "float", b |-> FALSE, n |-> x, s |-> "", a |-> <<>>, o |-> <<>>]

PyStr(x) == [t |-> "str", b |-> FALSE, n |-> 0, s |-> x, a |-> <<>>, o |-> <<>>]

PyList(x) == [t |-> "list", b |-> FALSE, n |-> 0, s |-> "", a |-> x, o |-> <<>>]

PyDict(x) == [t |-> "dict", b |-> FALSE, n |-> 0, s |-> "", a |-> <<>>, o |-> x]

Item(key, val) == [k |-> key, v |-> val]

Range(f) == {f[i] : i \in DOMAIN f}

Keys(d) == {d.o[i].k : i \in DOMAIN d.o}

\* dict.get(key, default)
Get(d, key, default) ==
    IF key \in Keys(d)
    THEN (CHOOSE it \in Range(d.o) : it.k = key).v
    ELSE default

\* bool(v): the truth value Python gives v in `not v` and `x if v else y`
Truthy(v) ==
    CASE v.t = "none"  -> FALSE
      [] v.t = "bool"  -> v.b
      [] v.t = "int"   -> v.n # 0
      [] v.t = "float" -> v.n # 0
      [] v.t = "str"   -> v.s # ""
      [] v.t = "list"  -> v.a # <<>>
      [] v.t = "dict"  -> v.o # <<>>

(***************************************************************************)
(* Text helpers.                                                           *)
(***************************************************************************)
StartsWith(s, p) == Len(s) >= Len(p) /\ SubSeq(s, 1, Len(p)) = p

Contains(s, p) ==
    \E i \in 1..(Len(s) - Len(p) + 1) : SubSeq(s, i, i + Len(p) - 1) = p

Chars(s) == [i \in 1..Len(s) |-> SubSeq(s, i, i)]

Lower == "abcdefghijklmnopqrstuvwxyz"

Upper == "ABCDEFGHIJKLMNOPQRSTUVWXYZ"

UpperChar(c) ==
    IF \E i \in 1..Len(Lower) : SubSeq(Lower, i, i) = c
    THEN SubSeq(Upper, (CHOOSE i \in 1..Len(Lower) : SubSeq(Lower, i, i) = c),
                       (CHOOSE i \in 1..Len(Lower) : SubSeq(Lower, i, i) = c))
    ELSE c

RECURSIVE upper(_)
\* str.upper()
upper(s) == IF s = "" THEN "" ELSE UpperChar(Head(s)) \o upper(Tail(s))

LowerChar(c) ==
    IF \E i \in 1..Len(Upper) : SubSeq(Upper, i, i) = c
    THEN SubSeq(Lower, (CHOOSE i \in 1..Len(Upper) : SubSeq(Upper, i, i) = c),
                       (CHOOSE i \in 1..Len(Upper) : SubSeq(Upper, i, i) = c))
    ELSE c

RECURSIVE lower(_)
\* str.lower()
lower(s) == IF s = "" THEN "" ELSE LowerChar(Head(s)) \o lower(Tail(s))

Digits == <<"0", "1", "2", "3", "4", "5", "6", "7", "8", "9">>

RECURSIVE NatText(_)
NatText(n) ==
    IF n < 10 THEN Digits[n + 1] ELSE NatText(n \div 10) \o Digits[(n % 10) + 1]

\* str(int)
IntText(n) == IF n < 0 THEN "-" \o NatText(0 - n) ELSE NatText(n)

\* the four fractional digits of a value held in ten-thousandths
Frac4(n) ==
    Digits[((n \div 1000) % 10) + 1] \o Digits[((n \div 100) % 10) + 1]
        \o Digits[((n \div 10) % 10) + 1] \o Digits[(n % 10) + 1]

RECURSIVE StripZeros(_)
StripZeros(s) ==
    IF Len(s) > 1 /\ SubSeq(s, Len(s), Len(s)) = "0"
    THEN StripZeros(SubSeq(s, 1, Len(s) - 1))
    ELSE s

\* repr(float) of a value held in ten-thousandths
FloatText(n) ==
    IF n < 0
    THEN "-" \o NatText((0 - n) \div 10000) \o "." \o StripZeros(Frac4((0 - n) % 10000))
    ELSE NatText(n \div 10000) \o "." \o StripZeros(Frac4(n % 10000))

RECURSIVE JoinText(_, _)
\* sep.join(parts) for a sequence of texts
JoinText(sep, parts) ==
    IF parts = <<>> THEN ""
    ELSE IF Len(parts) = 1 THEN parts[1]
    ELSE parts[1] \o sep \o JoinText(sep, Tail(parts))

RECURSIVE Repr(_)
\* repr(v), which str() of a list or dict applies to the elements
Repr(v) ==
    CASE v.t = "none"  -> "None"
      [] v.t = "bool"  -> IF v.b THEN "True" ELSE "False"
      [] v.t = "int"   -> IntText(v.n)
      [] v.t = "float" -> FloatText(v.n)
      [] v.t = "str"   -> "'" \o v.s \o "'"
      [] v.t = "list"  ->
            "[" \o JoinText(", ", [i \in DOMAIN v.a |-> Repr(v.a[i])]) \o "]"
      [] v.t = "dict"  ->
            "{" \o JoinText(", ", [i \in DOMAIN v.o |->
                       "'" \o v.o[i].k \o "': " \o Repr(v.o[i].v)]) \o "}"

\* str(v), what an f-string field {v} renders
Str(v) == IF v.t = "str" THEN v.s ELSE Repr(v)

(***************************************************************************)
(* What a piece of Python code comes to: a text it evaluates to or returns,*)
(* or the exception it raises.                                             *)
(***************************************************************************)
Ret(text) == [kind |-> "return", text |-> text]

Raise(exc) == [kind |-> "raise", text |-> exc]

\* key in v  ->  "yes", "no", or the exception raised
In(key, v) ==
    CASE v.t = "dict" -> IF key \in Keys(v) THEN "yes" ELSE "no"
      [] v.t = "list" -> IF PyStr(key) \in Range(v.a) THEN "yes" ELSE "no"
      [] v.t = "str"  -> IF Contains(v.s, key) THEN "yes" ELSE "no"
      [] OTHER        -> "TypeError"

\* ', '.join(v)
Join(sep, v) ==
    CASE v.t = "str"  -> Ret(JoinText(sep, Chars(v.s)))
      [] v.t = "list" ->
            IF \A i \in DOMAIN v.a : v.a[i].t = "str"
            THEN Ret(JoinText(sep, [i \in DOMAIN v.a |-> v.a[i].s]))
            ELSE Raise("TypeError")
      [] v.t = "dict" -> Ret(JoinText(sep, [i \in DOMAIN v.o |-> v.o[i].k]))
      [] OTHER        -> Raise("TypeError")

\* f"{v:.4f}"
Format4f(v) ==
    CASE v.t = "int"   -> Ret(IntText(v.n) \o ".0000")
      [] v.t = "bool"  -> Ret(IF v.b THEN "1.0000" ELSE "0.0000")
      [] v.t = "float" ->
            Ret(IF v.n < 0
                THEN "-" \o NatText((0 - v.n) \div 10000) \o "." \o Frac4((0 - v.n) % 10000)
                ELSE NatText(v.n \div 10000) \o "." \o Frac4(v.n % 10000))
      [] v.t = "str"   -> Raise("ValueError")
      [] OTHER         -> Raise("TypeError")

\* the elements `for x in v` visits, or the exception iter(v) raises
Iterate(v) ==
    CASE v.t = "list" -> [kind |-> "items", items |-> v.a]
      [] v.t = "dict" -> [kind |-> "items", items |-> [i \in DOMAIN v.o |-> PyStr(v.o[i].k)]]
      [] v.t = "str"  -> [kind |-> "items", items |-> [i \in 1..Len(v.s) |-> PyStr(SubSeq(v.s, i, i))]]
      [] OTHER        -> [kind |-> "raise", items |-> <<>>]

\* len(v)
LenOf(v) ==
    CASE v.t = "list" -> Len(v.a)
      [] v.t = "dict" -> Len(v.o)
      [] v.t = "str"  -> Len(v.s)
      [] OTHER        -> -1

(***************************************************************************)
(* Module constants of askDenodo.py and the fixed values of the requests.  *)
(***************************************************************************)
API_BASE_URL == "http://localhost:8008"

TIMEOUT == 120

EXAMPLES_PER_TABLE == 3

N_RESULTS_DEFAULT == 5

(***************************************************************************)
(* make_denodo_request.                                                    *)
(*                                                                         *)
(* What the httpx call comes to is the environment's choice: the backend   *)
(* answers with a status and a body (kind "response", body parsed or       *)
(* "malformed"), or httpx raises exc (kind "exception") with str(e) = msg. *)
(***************************************************************************)
Reply(status, body) ==
    [kind |-> "response", status |-> status, body |-> body, exc |-> "", msg |-> ""]

Malformed(status) ==
    [kind |-> "malformed", status |-> status, body |-> PyNone, exc |-> "JSONDecodeError",
     msg |-> "Expecting value: line 1 column 1 (char 0)"]

Failure(exc, msg) ==
    [kind |-> "exception", status |-> 0, body |-> PyNone, exc |-> exc, msg |-> msg]

NoOutcome == [kind |-> "none", status |-> 0, body |-> PyNone, exc |-> "", msg |-> ""]

Url(endpoint) == API_BASE_URL \o "/" \o endpoint

\* Variant: every method is sent as a request.
SendsRequest_any(method) == TRUE

\* The branch of lines 23-28: is an HTTP request sent for this method?
SendsRequest(method) == upper(method) \in {"GET", "POST"}

IsSuccessStatus(status) == status >= 200 /\ status <= 299

\* str(e) of the HTTPStatusError response.raise_for_status() raises
StatusErrorText(status, url) ==
    (IF status >= 500 THEN "Server error '" ELSE "Client error '")
        \o IntText(status) \o "' for url '" \o url \o "'"

\* Variant: response.raise_for_status() left out, the body is read under
\* every status.
ResultOf_no_status_check(endpoint, outcome) ==
    CASE outcome.kind = "exception" ->
            PyDict(<<Item("error", PyStr(outcome.msg))>>)
      [] outcome.kind = "malformed" ->
            PyDict(<<Item("error", PyStr(outcome.msg))>>)
      [] outcome.kind = "response" ->
            outcome.body

\* The value make_denodo_request returns once the httpx call is over.
ResultOf(endpoint, outcome) ==
    CASE outcome.kind = "exception" ->
            PyDict(<<Item("error", PyStr(outcome.msg))>>)
      [] outcome.kind \in {"response", "malformed"} /\ ~IsSuccessStatus(outcome.status) ->
            PyDict(<<Item("error", PyStr(StatusErrorText(outcome.status, Url(endpoint))))>>)
      [] outcome.kind = "malformed" /\ IsSuccessStatus(outcome.status) ->
            PyDict(<<Item("error", PyStr(outcome.msg))>>)
      [] outcome.kind = "response" /\ IsSuccessStatus(outcome.status) ->
            outcome.body

(***************************************************************************)
(* The response handling of the tools.                                     *)
(***************************************************************************)
Continue == [kind |-> "continue", text |-> ""]

\* Variant: the error text is read from the wrong key.
ErrorCheck_wrong_key(result, failed) ==
    IF ~Truthy(result) THEN Ret(failed)
    ELSE CASE In("error", result) = "TypeError" -> Raise("TypeError")
           [] In("error", result) = "yes" ->
                 IF result.t = "dict"
                 THEN Ret("Error: " \o Str(Get(result, "message", PyStr("Unknown error occurred"))))
                 ELSE Raise("AttributeError")
           [] In("error", result) = "no" -> Continue

\* if not result or "error" in result:
\*     return f"Error: {result.get('error', 'Unknown error occurred')}" if result else failed
ErrorCheck(result, failed) ==
    IF ~Truthy(result) THEN Ret(failed)
    ELSE CASE In("error", result) = "TypeError" -> Raise("TypeError")
           [] In("error", result) = "yes" ->
                 IF result.t = "dict"
                 THEN Ret("Error: " \o Str(Get(result, "error", PyStr("Unknown error occurred"))))
                 ELSE Raise("AttributeError")
           [] In("error", result) = "no" -> Continue

\* The Answer / SQL Query / Tables Used text of answer_question and
\* answer_data_question.
FormatAnswer(result) ==
    IF result.t # "dict" THEN Raise("AttributeError")
    ELSE LET answer == Get(result, "answer", PyStr("No answer provided"))
             sql_query == Get(result, "sql_query", PyStr(""))
             tables_used == Get(result, "tables_used", PyList(<<>>))
             tables == IF Truthy(tables_used) THEN Join(", ", tables_used) ELSE Ret("None")
         IN  IF tables.kind = "raise" THEN tables
             ELSE Ret("\nAnswer: " \o Str(answer)
                      \o "\n\nSQL Query: "
                      \o (IF Truthy(sql_query) THEN Str(sql_query) ELSE "No SQL query generated")
                      \o "\n\nTables Used: " \o tables.text \o "\n")

answer_question_text(result) ==
    LET check == ErrorCheck(result, "Failed to get a response")
    IN  IF check.kind # "continue" THEN check ELSE FormatAnswer(result)

answer_data_question_text(result) ==
    LET check == ErrorCheck(result, "Failed to get a response")
    IN  IF check.kind # "continue" THEN check ELSE FormatAnswer(result)

answer_metadata_question_text(result) ==
    LET check == ErrorCheck(result, "Failed to get a response")
    IN  IF check.kind # "continue" THEN check
        ELSE IF result.t # "dict" THEN Raise("AttributeError")
        ELSE Ret("Answer: " \o Str(Get(result, "answer", PyStr("No answer provided"))))

\* One pass of the loop of similarity_search, for the i-th item.
SearchEntry(i, item) ==
    IF item.t # "dict" THEN Raise("AttributeError")
    ELSE LET table_name == Get(item, "table_name", PyStr("Unknown"))
             score == Get(item, "score", PyInt(0))
             description == Get(item, "description", PyStr("No description available"))
         IN  IF Format4f(score).kind = "raise" THEN Format4f(score)
             ELSE Ret(IntText(i) \o ". Table: " \o Str(table_name)
                      \o "\n   Score: " \o Format4f(score).text
                      \o "\n   Description: " \o Str(description))

\* result[key] for a value that `key in result` holds of
Subscript(result, key) ==
    IF result.t = "dict"
    THEN [kind |-> "value", v |-> Get(result, key, PyNone)]
    ELSE [kind |-> "raise", v |-> PyNone]

similarity_search_text(result) ==
    LET check == ErrorCheck(result, "Failed to get a response")
    IN  IF check.kind # "continue" THEN check
        ELSE IF In("results", result) = "no"
        THEN Ret("No results found or unable to perform similarity search.")
        ELSE IF Subscript(result, "results").kind = "raise" THEN Raise("TypeError")
        ELSE LET it == Iterate(Subscript(result, "results").v)
                 entries == [i \in DOMAIN it.items |-> SearchEntry(i, it.items[i])]
                 bad == {i \in DOMAIN entries : entries[i].kind = "raise"}
             IN  IF it.kind = "raise" THEN Raise("TypeError")
                 ELSE IF bad # {}
                 THEN entries[CHOOSE i \in bad : \A j \in bad : i <= j]
                 ELSE Ret("Search Results:\n\n"
                          \o JoinText("\n\n", [i \in DOMAIN entries |-> entries[i].text]))

\* Variant: every database counts as one table.
MetadataEntry_counts_databases(db) ==
    IF db.t # "dict" THEN [kind |-> "raise", exc |-> "AttributeError", name |-> PyNone, tables |-> 0]
    ELSE [kind |-> "ok", exc |-> "",
          name |-> Get(db, "databaseName", PyStr("Unknown")),
          tables |-> 1]

\* One pass of the loop of get_metadata: the name appended and the tables
\* counted for one entry of db_schema_json, or the exception raised.
MetadataEntry(db) ==
    IF db.t # "dict" THEN [kind |-> "raise", exc |-> "AttributeError", name |-> PyNone, tables |-> 0]
    ELSE IF LenOf(Get(db, "databaseTables", PyList(<<>>))) < 0
    THEN [kind |-> "raise", exc |-> "TypeError", name |-> PyNone, tables |-> 0]
    ELSE [kind |-> "ok", exc |-> "",
          name |-> Get(db, "databaseName", PyStr("Unknown")),
          tables |-> LenOf(Get(db, "databaseTables", PyList(<<>>)))]

RECURSIVE Sum(_)
Sum(ns) == IF ns = <<>> THEN 0 ELSE Head(ns) + Sum(Tail(ns))

\* Variant: get_metadata reports an empty result with the text of the other
\* tools.
get_metadata_text_shared_literal(database_names, result) ==
    LET check == ErrorCheck(result, "Failed to get a response")
    IN  IF check.kind # "continue" THEN check
        ELSE Ret("Successfully retrieved metadata for 0 tables from database(s): "
                 \o database_names \o ".")

get_metadata_text(database_names, result) ==
    LET check == ErrorCheck(result, "Failed to get metadata")
    IN  IF check.kind # "continue" THEN check
        ELSE IF In("db_schema_json", result) = "no"
        THEN Ret("Successfully retrieved metadata for 0 tables from database(s): "
                 \o database_names \o ".")
        ELSE IF Subscript(result, "db_schema_json").kind = "raise" THEN Raise("TypeError")
        ELSE LET it == Iterate(Subscript(result, "db_schema_json").v)
                 entries == [i \in DOMAIN it.items |-> MetadataEntry(it.items[i])]
                 bad == {i \in DOMAIN entries : entries[i].kind = "raise"}
                 databases == PyList([i \in DOMAIN entries |-> entries[i].name])
                 tables_count == Sum([i \in DOMAIN entries |-> entries[i].tables])
                 databases_str == IF Truthy(databases) THEN Join(", ", databases)
                                  ELSE Ret(database_names)
             IN  IF it.kind = "raise" THEN Raise("TypeError")
                 ELSE IF bad # {}
                 THEN Raise(entries[CHOOSE i \in bad : \A j \in bad : i <= j].exc)
                 ELSE IF databases_str.kind = "raise" THEN databases_str
                 ELSE Ret("Successfully retrieved metadata for " \o IntText(tables_count)
                          \o " tables from database(s): " \o databases_str.text \o ".")

(***************************************************************************)
(* The requests the tools build.                                           *)
(***************************************************************************)
\* auth = (username, password) if username and password else None
Auth(username, password) ==
    IF Truthy(PyStr(username)) /\ Truthy(PyStr(password))
    THEN [present |-> TRUE, username |-> username, password |-> password]
    ELSE [present |-> FALSE, username |-> "", password |-> ""]

NoAuth == [present |-> FALSE, username |-> "", password |-> ""]

Request(endpoint, method, params, json_data, auth) ==
    [endpoint |-> endpoint, method |-> method, params |-> params,
     json_data |-> json_data, auth |-> auth]

NoRequest == Request("", "", PyNone, PyNone, NoAuth)

\* Variant: use_views is sent whether or not it is empty.
answer_question_json_data_sends_empty(question, plot, mode, use_views, custom_instructions) ==
    PyDict(<<Item("question", PyStr(question)),
             Item("plot", PyBool(plot)),
             Item("mode", PyStr(mode)),
             Item("markdown_response", PyBool(TRUE)),
             Item("verbose", PyBool(TRUE)),
             Item("use_views", PyStr(use_views))>>
           \o (IF Truthy(PyStr(custom_instructions))
               THEN <<Item("custom_instructions", PyStr(custom_instructions))>> ELSE <<>>))

answer_question_json_data(question, plot, mode, use_views, custom_instructions) ==
    PyDict(<<Item("question", PyStr(question)),
             Item("plot", PyBool(plot)),
             Item("mode", PyStr(mode)),
             Item("markdown_response", PyBool(TRUE)),
             Item("verbose", PyBool(TRUE))>>
           \o (IF Truthy(PyStr(use_views))
               THEN <<Item("use_views", PyStr(use_views))>> ELSE <<>>)
           \o (IF Truthy(PyStr(custom_instructions))
               THEN <<Item("custom_instructions", PyStr(custom_instructions))>> ELSE <<>>))

answer_data_question_json_data(question, plot, use_views) ==
    PyDict(<<Item("question", PyStr(question)),
             Item("plot", PyBool(plot)),
             Item("markdown_response", PyBool(TRUE)),
             Item("verbose", PyBool(TRUE))>>
           \o (IF Truthy(PyStr(use_views))
               THEN <<Item("use_views", PyStr(use_views))>> ELSE <<>>))

answer_metadata_question_json_data(question) ==
    PyDict(<<Item("question", PyStr(question)),
             Item("markdown_response", PyBool(TRUE)),
             Item("verbose", PyBool(TRUE))>>)

similarity_search_params(query, n_results) ==
    PyDict(<<Item("query", PyStr(query)),
             Item("n_results", PyInt(n_results)),
             Item("scores", PyBool(TRUE))>>)

get_metadata_params(database_names, insert, overwrite) ==
    PyDict(<<Item("vdp_database_names", PyStr(database_names)),
             Item("insert", PyStr(lower(Str(PyBool(insert))))),
             Item("overwrite", PyStr(lower(Str(PyBool(overwrite))))),
             Item("examples_per_table", PyInt(EXAMPLES_PER_TABLE)),
             Item("descriptions", PyStr("true")),
             Item("associations", PyStr("true"))>>)

(***************************************************************************)
(* The values the callers and the backend are drawn from.                  *)
(***************************************************************************)
MaxEntries == 2

MaxTables == 2

Tools == {"answer_question", "answer_data_question", "answer_metadata_question",
          "similarity_search", "get_metadata"}

Questions == {"How many loans?"}

Usernames == {"", "admin"}

Passwords == {"", "secret"}

Modes == {"default", "data"}

Views == {"", "bank.loans, bank.customers"}

Instructions == {"", "Be brief"}

Queries == {"customer churn"}

ResultCounts == {N_RESULTS_DEFAULT, 2}

DatabaseNames == {"bank", "bank,crm"}

Endpoints == {"getMetadata"}

Methods == {"GET", "post", "PUT", "DELETE", "patch", ""}

SeqsUpTo(S, n) == UNION {[1..k -> S] : k \in 0..n}

AnswerFields ==
    <<Item("answer", PyStr("42")),
      Item("sql_query", PyStr("SELECT COUNT(*) FROM loans")),
      Item("tables_used", PyList(<<PyStr("bank.loans"), PyStr("bank.customers")>>))>>

\* the items of a sequence at the positions in keep, in order
RECURSIVE Pick(_, _, _)
Pick(items, keep, i) ==
    IF i > Len(items) THEN <<>>
    ELSE (IF i \in keep THEN <<items[i]>> ELSE <<>>) \o Pick(items, keep, i + 1)

\* objects carrying every subset of the answer fields, the empty object included
AnswerBodies == {PyDict(Pick(AnswerFields, keep, 1)) : keep \in SUBSET (1..3)}

ErrorBodies ==
    {PyDict(<<Item("error", PyStr("invalid credentials"))>>),
     PyDict(<<Item("error", PyStr("")), Item("answer", PyStr("42"))>>),
     PyDict(<<Item("answer", PyStr("42")), Item("error", PyStr("view not found"))>>),
     PyDict(<<Item("error", PyNone)>>)}

SearchItems ==
    {PyDict(<<Item("table_name", PyStr("bank.customers")), Item("score", PyFloat(8765)),
              Item("description", PyStr("Customer master"))>>),
     PyDict(<<Item("table_name", PyStr("bank.loans")), Item("score", PyInt(1))>>),
     PyDict(<<>>)}

SearchBodies == {PyDict(<<Item("results", PyList(items))>>) : items \in SeqsUpTo(SearchItems, MaxEntries)}

TableList(n) == PyList([i \in 1..n |-> PyDict(<<>>)])

SchemaEntries ==
    {PyDict(<<Item("databaseName", PyStr("bank")), Item("databaseTables", TableList(MaxTables))>>),
     PyDict(<<Item("databaseName", PyStr("crm")), Item("databaseTables", TableList(1))>>),
     PyDict(<<Item("databaseTables", TableList(1))>>),
     PyDict(<<Item("databaseName", PyStr("hr"))>>)}

SchemaBodies ==
    {PyDict(<<Item("db_schema_json", PyList(entries))>>) : entries \in SeqsUpTo(SchemaEntries, MaxEntries)}

\* JSON values of other shapes: scalars, arrays, and objects whose fields
\* have types the tools do not expect
OtherBodies ==
    {PyNone, PyBool(TRUE), PyBool(FALSE), PyInt(0), PyInt(7), PyFloat(5000),
     PyStr(""), PyStr("internal error"), PyStr("ok"),
     PyList(<<>>), PyList(<<PyInt(1)>>), PyList(<<PyStr("error")>>),
     PyList(<<PyStr("results"), PyStr("db_schema_json")>>),
     PyDict(<<Item("answer", PyNone), Item("sql_query", PyStr("")), Item("tables_used", PyList(<<>>))>>),
     PyDict(<<Item("answer", PyStr("42")), Item("tables_used", PyList(<<PyInt(1)>>))>>),
     PyDict(<<Item("answer", PyStr("42")), Item("tables_used", PyStr("ab"))>>),
     PyDict(<<Item("results", PyNone)>>),
     PyDict(<<Item("results", PyList(<<PyStr("bank.loans")>>))>>),
     PyDict(<<Item("results", PyList(<<PyDict(<<Item("score", PyStr("high"))>>)>>))>>),
     PyDict(<<Item("db_schema_json", PyNone)>>),
     PyDict(<<Item("db_schema_json", PyList(<<PyDict(<<Item("databaseTables", PyNone)>>)>>))>>),
     PyDict(<<Item("db_schema_json", PyList(<<PyDict(<<Item("databaseName", PyInt(5))>>)>>))>>)}

Bodies == AnswerBodies \cup ErrorBodies \cup SearchBodies \cup SchemaBodies \cup OtherBodies

Statuses == {200, 201, 401, 500}

\* every body under 200; the error and answer bodies under the other statuses
Replies ==
    {Reply(200, body) : body \in Bodies}
        \cup {Reply(status, body) : status \in Statuses \ {200}, body \in ErrorBodies \cup AnswerBodies}

NetworkErrors == {"All connection attempts failed", ""}

TimeoutErrors == {"", "timed out"}

(***************************************************************************)
(* State of one invocation.                                                *)
(***************************************************************************)
VARIABLES
    pc,        \* "idle", "awaiting" (suspended in the httpx call), "returned", "raised"
    tool,      \* the function called
    args,      \* its arguments
    request,   \* what it passed to make_denodo_request
    sent,      \* HTTP requests issued for this invocation
    elapsed,   \* time the httpx call has waited, in the units of timeout=
    outcome,   \* how the httpx call ended
    result,    \* what make_denodo_request returned
    output     \* what the tool returned or raised

vars == <<pc, tool, args, request, sent, elapsed, outcome, result, output>>

NoArgs ==
    [question |-> "", username |-> "", password |-> "", plot |-> FALSE, mode |-> "",
     use_views |-> "", custom_instructions |-> "", n_results |-> 0,
     database_names |-> "", insert |-> FALSE, overwrite |-> FALSE]

NoOutput == [kind |-> "none", text |-> ""]

Init ==
    /\ pc = "idle"
    /\ tool = ""
    /\ args = NoArgs
    /\ request = NoRequest
    /\ sent = 0
    /\ elapsed = 0
    /\ outcome = NoOutcome
    /\ result = PyNone
    /\ output = NoOutput

\* What the caller of make_denodo_request does with the value it gets back.
TextOf(t, a, r) ==
    CASE t = "answer_question"          -> answer_question_text(r)
      [] t = "answer_data_question"     -> answer_data_question_text(r)
      [] t = "answer_metadata_question" -> answer_metadata_question_text(r)
      [] t = "similarity_search"        -> similarity_search_text(r)
      [] t = "get_metadata"             -> get_metadata_text(a.database_names, r)
      [] OTHER                          -> [kind |-> "value", text |-> ""]

PcAfter(out) == IF out.kind = "raise" THEN "raised" ELSE "returned"

\* A call of make_denodo_request up to its await: the HTTP request goes out,
\* or, for a method that is neither GET nor POST, None comes back at once.
Call(t, a, req) ==
    /\ pc = "idle"
    /\ tool' = t
    /\ args' = a
    /\ request' = req
    /\ elapsed' = 0
    /\ outcome' = NoOutcome
    /\ IF SendsRequest(req.method)
       THEN /\ sent' = sent + 1
            /\ pc' = "awaiting"
            /\ result' = PyNone
            /\ output' = NoOutput
       ELSE /\ sent' = sent
            /\ result' = PyNone
            /\ output' = TextOf(t, a, PyNone)
            /\ pc' = PcAfter(output')

\* Variant: a request that ends in an exception is sent again.
Finish_retries(o) ==
    /\ pc = "awaiting"
    /\ IF o.kind = "exception" /\ sent < 2
       THEN /\ sent' = sent + 1
            /\ elapsed' = 0
            /\ UNCHANGED <<pc, tool, args, request, outcome, result, output>>
       ELSE /\ outcome' = o
            /\ result' = ResultOf(request.endpoint, o)
            /\ output' = TextOf(tool, args, result')
            /\ pc' = PcAfter(output')
            /\ elapsed' = 0
            /\ UNCHANGED <<tool, args, request, sent>>

\* The httpx call is over: make_denodo_request returns and its caller runs
\* to its end.
Finish(o) ==
    /\ pc = "awaiting"
    /\ outcome' = o
    /\ result' = ResultOf(request.endpoint, o)
    /\ output' = TextOf(tool, args, result')
    /\ pc' = PcAfter(output')
    /\ elapsed' = 0
    /\ UNCHANGED <<tool, args, request, sent>>

answer_question(question, username, password, plot, mode, use_views, custom_instructions) ==
    Call("answer_question",
         [NoArgs EXCEPT !.question = question, !.username = username, !.password = password,
                        !.plot = plot, !.mode = mode, !.use_views = use_views,
                        !.custom_instructions = custom_instructions],
         Request("answerQuestion", "POST", PyNone,
                 answer_question_json_data(question, plot, mode, use_views, custom_instructions),
                 Auth(username, password)))

answer_data_question(question, username, password, plot, use_views) ==
    Call("answer_data_question",
         [NoArgs EXCEPT !.question = question, !.username = username, !.password = password,
                        !.plot = plot, !.use_views = use_views],
         Request("answerDataQuestion", "POST", PyNone,
                 answer_data_question_json_data(question, plot, use_views),
                 Auth(username, password)))

answer_metadata_question(question, username, password) ==
    Call("answer_metadata_question",
         [NoArgs EXCEPT !.question = question, !.username = username, !.password = password],
         Request("answerMetadataQuestion", "POST", PyNone,
                 answer_metadata_question_json_data(question),
                 Auth(username, password)))

similarity_search(query, n_results, username, password) ==
    Call("similarity_search",
         [NoArgs EXCEPT !.question = query, !.n_results = n_results,
                        !.username = username, !.password = password],
         Request("similaritySearch", "GET", similarity_search_params(query, n_results),
                 PyNone, Auth(username, password)))

get_metadata(database_names, insert, overwrite, username, password) ==
    Call("get_metadata",
         [NoArgs EXCEPT !.database_names = database_names, !.insert = insert,
                        !.overwrite = overwrite, !.username = username, !.password = password],
         Request("getMetadata", "GET", get_metadata_params(database_names, insert, overwrite),
                 PyNone, Auth(username, password)))

\* make_denodo_request called on its own, with any method
make_denodo_request(endpoint, method) ==
    Call("make_denodo_request", NoArgs, Request(endpoint, method, PyNone, PyNone, NoAuth))

\* the backend answers with a status and a JSON body
Respond(reply) == Finish(reply)

\* the backend answers with a body that is not JSON
RespondMalformed(status) == Finish(Malformed(status))

\* the connection fails
NetworkError(msg) == Finish(Failure("ConnectError", msg))

\* time passes while the httpx call waits
Tick ==
    /\ pc = "awaiting"
    /\ elapsed < TIMEOUT
    /\ elapsed' = elapsed + 1
    /\ UNCHANGED <<pc, tool, args, request, sent, outcome, result, output>>

\* Variant: timeout=None, the call waits for the backend without limit.
TimeoutFires_no_timeout(msg) ==
    /\ FALSE
    /\ UNCHANGED vars

\* timeout=120.0 expires: httpx raises a timeout exception
TimeoutFires(msg) ==
    /\ elapsed >= TIMEOUT
    /\ Finish(Failure("ReadTimeout", msg))

\* the invocation is over; the next one starts from scratch
Done ==
    /\ pc \in {"returned", "raised"}
    /\ pc' = "idle"
    /\ tool' = ""
    /\ args' = NoArgs
    /\ request' = NoRequest
    /\ sent' = 0
    /\ elapsed' = 0
    /\ outcome' = NoOutcome
    /\ result' = PyNone
    /\ output' = NoOutput

Next ==
    \/ \E q \in Questions, u \in Usernames, p \in Passwords, plot \in BOOLEAN,
          mode \in Modes, uv \in Views, ci \in Instructions :
            answer_question(q, u, p, plot, mode, uv, ci)
    \/ \E q \in Questions, u \in Usernames, p \in Passwords, plot \in BOOLEAN, uv \in Views :
            answer_data_question(q, u, p, plot, uv)
    \/ \E q \in Questions, u \in Usernames, p \in Passwords :
            answer_metadata_question(q, u, p)
    \/ \E q \in Queries, n \in ResultCounts, u \in Usernames, p \in Passwords :
            similarity_search(q, n, u, p)
    \/ \E d \in DatabaseNames, ins \in BOOLEAN, ovr \in BOOLEAN,
          u \in Usernames, p \in Passwords :
            get_metadata(d, ins, ovr, u, p)
    \/ \E e \in Endpoints, m \in Methods : make_denodo_request(e, m)
    \/ \E reply \in Replies : Respond(reply)
    \/ \E status \in Statuses : RespondMalformed(status)
    \/ \E msg \in NetworkErrors : NetworkError(msg)
    \/ Tick
    \/ \E msg \in TimeoutErrors : TimeoutFires(msg)
    \/ Done

Spec == Init /\ [][Next]_vars

\* The httpx timeout is what the scheduling guarantees: time passes, and at
\* the limit the call is abandoned.  The backend owes nothing.
FairSpec ==
    /\ Init
    /\ [][Next]_vars
    /\ WF_vars(Tick)
    /\ WF_vars(\E msg \in TimeoutErrors : TimeoutFires(msg))

(***************************************************************************)
(* Properties.                                                             *)
(***************************************************************************)
IsTool == tool \in Tools

Over == pc \in {"returned", "raised"}

\* the backend answered 2xx with a JSON body
Answered2xx == outcome.kind = "response" /\ IsSuccessStatus(outcome.status)

\* the httpx call ended in an exception: the connection, the timeout, a
\* non-2xx status, or a body that is not JSON
TransportFailed ==
    \/ outcome.kind \in {"exception", "malformed"}
    \/ outcome.kind = "response" /\ ~IsSuccessStatus(outcome.status)

\* str(e) of that exception
TransportMessage ==
    IF outcome.kind \in {"response", "malformed"} /\ ~IsSuccessStatus(outcome.status)
    THEN StatusErrorText(outcome.status, Url(request.endpoint))
    ELSE outcome.msg

HasErrorField(body) == body.t = "dict" /\ "error" \in Keys(body)

\* C1: every one of the five operations always completes by returning a text
\* and never raises, whatever the transport outcome and whatever JSON value
\* the backend returns under a 2xx status.
C1_NeverRaises == IsTool => pc # "raised"

\* C2: whenever the backend call of an operation ends as a transport failure
\* or a backend-reported error with a message, the operation returns exactly
\* "Error: " followed by that message.
C2_ErrorText ==
    (IsTool /\ Over) =>
        /\ TransportFailed => output = Ret("Error: " \o TransportMessage)
        /\ (Answered2xx /\ HasErrorField(outcome.body)) =>
              output = Ret("Error: " \o Str(Get(outcome.body, "error", PyNone)))
        /\ (Answered2xx /\ HasErrorField(outcome.body)
                /\ Get(outcome.body, "error", PyNone).t = "str") =>
              output = Ret("Error: " \o Get(outcome.body, "error", PyNone).s)

C2_Witness ==
    /\ IsTool /\ pc = "returned" /\ Answered2xx
    /\ Get(outcome.body, "error", PyNone) = PyStr("view not found")
    /\ "answer" \in Keys(outcome.body)
    /\ output.text = "Error: view not found"

\* C3 as stated: in every one of the five operations an empty result gives
\* the text "Failed to get a response", and every other failure string
\* begins with "Error: ".
C3_FailedToGetAResponse ==
    (IsTool /\ Over) =>
        /\ ~Truthy(result) => output = Ret("Failed to get a response")
        /\ (Truthy(result) /\ HasErrorField(result)) =>
              output.kind = "return" /\ StartsWith(output.text, "Error: ")

\* C3 as the code has it: an empty result gives "Failed to get a response" in
\* answer_question, answer_data_question, answer_metadata_question and
\* similarity_search, and "Failed to get metadata" in get_metadata; every
\* other failure string begins with "Error: ".
C3_EmptyResultText ==
    (IsTool /\ Over) =>
        /\ (~Truthy(result) /\ tool # "get_metadata") =>
              output = Ret("Failed to get a response")
        /\ (~Truthy(result) /\ tool = "get_metadata") =>
              output = Ret("Failed to get metadata")
        /\ (Truthy(result) /\ HasErrorField(result)) =>
              output.kind = "return" /\ StartsWith(output.text, "Error: ")

C3_Witness ==
    /\ tool = "get_metadata" /\ pc = "returned"
    /\ Answered2xx /\ outcome.body = PyNone
    /\ output.text = "Failed to get metadata"

\* the text of a field of a well-formed payload, or the documented default
FieldText(body, key, default) ==
    IF key \in Keys(body) THEN Get(body, key, PyNone).s ELSE default

ExpectedAnswerText(body) ==
    "\nAnswer: " \o FieldText(body, "answer", "No answer provided")
        \o "\n\nSQL Query: " \o FieldText(body, "sql_query", "No SQL query generated")
        \o "\n\nTables Used: "
        \o (IF "tables_used" \in Keys(body)
            THEN JoinText(", ", [i \in DOMAIN Get(body, "tables_used", PyNone).a |->
                                    Get(body, "tables_used", PyNone).a[i].s])
            ELSE "None")
        \o "\n"

IsFailureText(text) == StartsWith(text, "Error: ") \/ StartsWith(text, "Failed to get")

\* C4: for every successful response that is a JSON object without an error
\* field, whichever of the optional fields it carries (none of them
\* included), each operation returns its success template with the
\* documented default for every missing field, never a failure string.
C4_DefaultsForMissingFields ==
    (IsTool /\ Over /\ Answered2xx /\ outcome.body \in AnswerBodies) =>
        /\ output.kind = "return"
        /\ ~IsFailureText(output.text)
        /\ tool \in {"answer_question", "answer_data_question"} =>
              output.text = ExpectedAnswerText(outcome.body)
        /\ tool = "answer_metadata_question" =>
              output.text = "Answer: " \o FieldText(outcome.body, "answer", "No answer provided")

\* C5 as stated: a body that is a JSON object with a top-level error field
\* makes the operation return "Error: " followed by that field's value,
\* whatever the HTTP status.
C5_ErrorFieldAnyStatus ==
    (IsTool /\ Over /\ outcome.kind = "response" /\ HasErrorField(outcome.body)) =>
        output = Ret("Error: " \o Str(Get(outcome.body, "error", PyNone)))

\* C5 as the code has it: under a 2xx status such a body makes the operation
\* return "Error: " followed by the text of the error field; under any other
\* status the body is not read and the operation returns "Error: " followed
\* by the description of the HTTP status error.
C5_ErrorFieldUnder2xx ==
    (IsTool /\ Over /\ outcome.kind = "response" /\ HasErrorField(outcome.body)) =>
        /\ IsSuccessStatus(outcome.status) =>
              output = Ret("Error: " \o Str(Get(outcome.body, "error", PyNone)))
        /\ ~IsSuccessStatus(outcome.status) =>
              output = Ret("Error: " \o StatusErrorText(outcome.status, Url(request.endpoint)))

C5_Witness ==
    /\ IsTool /\ pc = "returned"
    /\ outcome.kind = "response" /\ outcome.status = 401
    /\ Get(outcome.body, "error", PyNone) = PyStr("invalid credentials")
    /\ output.text # "Error: invalid credentials"

\* C6: the request of answer_question and answer_data_question carries
\* use_views (and custom_instructions, for answer_question) exactly when the
\* caller's value is non-empty, unchanged; an empty value is never sent;
\* question, plot, mode (answer_question), markdown_response=true and
\* verbose=true are in every request.
C6_OptionalFields ==
    (tool \in {"answer_question", "answer_data_question"}) =>
        LET sentBody == request.json_data
        IN  /\ sentBody.t = "dict"
            /\ ("use_views" \in Keys(sentBody)) <=> (args.use_views # "")
            /\ ("use_views" \in Keys(sentBody)) =>
                  Get(sentBody, "use_views", PyNone) = PyStr(args.use_views)
            /\ ("custom_instructions" \in Keys(sentBody)) <=>
                  (tool = "answer_question" /\ args.custom_instructions # "")
            /\ ("custom_instructions" \in Keys(sentBody)) =>
                  Get(sentBody, "custom_instructions", PyNone) = PyStr(args.custom_instructions)
            /\ \A i \in DOMAIN sentBody.o :
                  sentBody.o[i].k \in {"use_views", "custom_instructions"} =>
                      sentBody.o[i].v # PyStr("")
            /\ Get(sentBody, "question", PyNone) = PyStr(args.question)
            /\ Get(sentBody, "plot", PyNone) = PyBool(args.plot)
            /\ Get(sentBody, "markdown_response", PyNone) = PyBool(TRUE)
            /\ Get(sentBody, "verbose", PyNone) = PyBool(TRUE)
            /\ ("mode" \in Keys(sentBody)) <=> (tool = "answer_question")
            /\ tool = "answer_question" => Get(sentBody, "mode", PyNone) = PyStr(args.mode)

C6_Witness ==
    /\ tool = "answer_question" /\ pc = "awaiting"
    /\ args.use_views = "" /\ args.custom_instructions = "Be brief"
    /\ Keys(request.json_data) =
          {"question", "plot", "mode", "markdown_response", "verbose", "custom_instructions"}

\* the call ended in a failure: no result, or a result carrying an error
FailedResult == ~Truthy(result) \/ HasErrorField(result)

\* C7: each invocation of an operation issues exactly one HTTP request: none
\* is in flight or over without its one request, no second request follows a
\* failure, and the failure is what the invocation returns.
C7_OneRequest ==
    IsTool =>
        /\ sent <= 1
        /\ pc \in {"awaiting", "returned", "raised"} => sent = 1
        /\ (Over /\ FailedResult) =>
              /\ output.kind = "return"
              /\ IsFailureText(output.text)
              /\ TransportFailed => output.text = "Error: " \o TransportMessage

C7_Witness ==
    /\ IsTool /\ pc = "returned" /\ sent = 1
    /\ outcome.exc = "ConnectError"
    /\ output.text = "Error: All connection attempts failed"

\* C8: every invocation resolves: one suspended in the transport call leaves
\* it, by the timeout if the backend never answers, and after the timeout
\* the operation returns a text beginning with "Error: ".
C8_Resolves ==
    /\ (pc = "awaiting") ~> Over
    /\ [](pc = "awaiting" => elapsed <= TIMEOUT)
    /\ []((IsTool /\ Over /\ outcome.exc = "ReadTimeout") =>
              (output.kind = "return" /\ StartsWith(output.text, "Error: ")))

C8_Witness ==
    /\ IsTool /\ pc = "returned"
    /\ outcome.exc = "ReadTimeout" /\ outcome.msg = "timed out"
    /\ output.text = "Error: timed out"

UnsupportedMethod == upper(request.method) \notin {"GET", "POST"}

\* C9 as stated: called with a method that is neither GET nor POST,
\* make_denodo_request yields a transport failure, a result carrying an error
\* message, without attempting a connection, and not an empty result.
C9_UnsupportedMethodFails ==
    (tool = "make_denodo_request" /\ Over /\ UnsupportedMethod) =>
        /\ sent = 0
        /\ HasErrorField(result)
        /\ Truthy(result)

\* C9 as the code has it: called with such a method, make_denodo_request
\* returns None, the empty result, at once and without attempting a
\* connection; the tools render None as "Failed to get a response"
\* ("Failed to get metadata" in get_metadata).
C9_UnsupportedMethodNone ==
    (tool = "make_denodo_request" /\ Over /\ UnsupportedMethod) =>
        /\ sent = 0
        /\ outcome = NoOutcome
        /\ result = PyNone
        /\ answer_question_text(result) = Ret("Failed to get a response")
        /\ answer_data_question_text(result) = Ret("Failed to get a response")
        /\ answer_metadata_question_text(result) = Ret("Failed to get a response")
        /\ similarity_search_text(result) = Ret("Failed to get a response")
        /\ get_metadata_text("bank", result) = Ret("Failed to get metadata")

C9_Witness ==
    /\ tool = "make_denodo_request" /\ pc = "returned"
    /\ request.method = "PUT"
    /\ sent = 0 /\ result = PyNone

\* the entries of db_schema_json in a well-formed payload
SchemaOf(body) == Get(body, "db_schema_json", PyNone).a

ExpectedTables(body) ==
    Sum([i \in DOMAIN SchemaOf(body) |->
            IF "databaseTables" \in Keys(SchemaOf(body)[i])
            THEN Len(Get(SchemaOf(body)[i], "databaseTables", PyNone).a)
            ELSE 0])

ExpectedNames(body) ==
    JoinText(", ", [i \in DOMAIN SchemaOf(body) |->
                       FieldText(SchemaOf(body)[i], "databaseName", "Unknown")])

MetadataText(count, names) ==
    "Successfully retrieved metadata for " \o IntText(count)
        \o " tables from database(s): " \o names \o "."

\* a payload get_metadata formats: a non-empty object with no error field,
\* whose db_schema_json, if any, is a list of well-formed entries
MetadataPayload ==
    /\ tool = "get_metadata" /\ Over /\ Answered2xx
    /\ outcome.body \in SchemaBodies \cup (AnswerBodies \ {PyDict(<<>>)})

\* C10 as stated: with db_schema_json present, get_metadata reports the sum
\* of the lengths of the entries' databaseTables and the entries'
\* databaseName values in order, comma-joined; only with db_schema_json
\* absent does it report 0 tables and the requested database_names.
C10_FallbackOnlyIfAbsent ==
    MetadataPayload =>
        output = Ret(IF "db_schema_json" \in Keys(outcome.body)
                     THEN MetadataText(ExpectedTables(outcome.body), ExpectedNames(outcome.body))
                     ELSE MetadataText(0, args.database_names))

\* C10 as the code has it: with db_schema_json present and not empty,
\* get_metadata reports the sum of the lengths of the entries'
\* databaseTables and the entries' databaseName values in order,
\* comma-joined; with db_schema_json absent or empty it reports 0 tables and
\* the requested database_names.
C10_FallbackIfAbsentOrEmpty ==
    MetadataPayload =>
        output = Ret(IF "db_schema_json" \in Keys(outcome.body) /\ SchemaOf(outcome.body) # <<>>
                     THEN MetadataText(ExpectedTables(outcome.body), ExpectedNames(outcome.body))
                     ELSE MetadataText(0, args.database_names))

C10_Witness ==
    /\ MetadataPayload /\ pc = "returned"
    /\ "db_schema_json" \in Keys(outcome.body)
    /\ Len(SchemaOf(outcome.body)) = 2
    /\ SchemaOf(outcome.body)[1] # SchemaOf(outcome.body)[2]
    /\ ExpectedTables(outcome.body) = MaxTables + 1
    /\ output.text = MetadataText(MaxTables + 1, ExpectedNames(outcome.body))
====
